---- MODULE Spec2Model ----
(***************************************************************************)
(* A model of src/lib/performance.ts: the PerformanceMonitor singleton     *)
(* (a Map of named timing records capped at maxMetrics entries), the       *)
(* measure(name) decorator that times the invocations of a method through  *)
(* it, the withPerformanceMonitoring render wrapper and the                *)
(* monitorPerformance threshold logger.                                    *)
(*                                                                         *)
(* A JavaScript Map iterates in insertion order, and clearOldMetrics sorts *)
(* Array.from(entries) with a stable sort, so the Map is modelled as the   *)
(* sequence of its values in insertion order (each value carries its key   *)
(* in the field name, as the code writes it).  An optional property of a   *)
(* record (endTime?, duration?) is a field that is in the record's DOMAIN  *)
(* or not.  An optional value (T | undefined) is a sequence of length 0    *)
(* or 1.  performance.now() is the variable now, which never decreases.    *)
(* The records are objects: getAllMetrics returns a new array of the       *)
(* Map's own record objects, and endMeasure changes a record object in     *)
(* place.  The variable held is such an array in the hands of a caller;    *)
(* each element says whether it still is the object the Map holds (live).  *)
(* logger (./logger) is taken to accept every message and return, so that  *)
(* endMeasure never throws.                                                *)
(***************************************************************************)
EXTENDS Integers, Sequences, FiniteSets, TLC

\* ------------------------------------------------------------ bounds
\* The capacity the checks run with.  The source sets 1000 (line 14); no
\* operation depends on the value except through the comparison
\* size >= maxMetrics, so the model runs with a small one.
MaxCapacity == 2
\* performance.now() ranges over 0..MaxTime.
MaxTime == 1

\* The names callers measure under.
Names == {"a", "b", "c"}
\* The names the measure decorator is applied with.
MeasuredNames == {"a", "b"}
\* The invocations of decorated methods that may be in flight.
Invs == {"i1", "i2"}
\* The invocation followed among the calls of other tasks.
Solo == {"i1"}
\* Argument lists, results and failures of the decorated methods.
ArgLists == {<<1>>, <<2>>}
Results == {"41", "42"}
Errors == {"boom", "bang"}
\* The functionName and startTime arguments given to monitorPerformance.
FunctionNames == {"op"}
StartTimes == {-101, -100, -99, 0}
\* The components wrapped by withPerformanceMonitoring, with the name each
\* is wrapped under, and the props they are rendered with.
Wrapped == {[component |-> "Chart", componentName |-> "chart"]}
PropsGiven == {"p1", "p2"}

\* ------------------------------------------------------------ constants
maxMetrics == MaxCapacity
\* line 136: if (executionTime > 100)
SlowThreshold == 100

VARIABLES
    metrics,    \* PerformanceMonitor.metrics: the Map's values, in insertion order
    now,        \* the last reading of performance.now()
    out,        \* the last operation called: what, by whom, with what, its result and its log lines
    calls,      \* the invocations of methods decorated with measure(name)
    held        \* an array returned by getAllMetrics that a caller has kept

vars == <<metrics, now, out, calls, held>>

\* ------------------------------------------------------------ Map<string, PerformanceMetric>
MapHas(m, k) == \E i \in 1..Len(m) : m[i].name = k

MapIndex(m, k) == CHOOSE i \in 1..Len(m) : m[i].name = k

\* Map.get: the value, or undefined
MapGet(m, k) == IF MapHas(m, k) THEN <<m[MapIndex(m, k)]>> ELSE <<>>

\* Map.set: an existing key keeps its place in the iteration order
MapSet(m, k, v) ==
    IF MapHas(m, k) THEN [m EXCEPT ![MapIndex(m, k)] = v] ELSE Append(m, v)

MapDelete(m, k) == SelectSeq(m, LAMBDA e : e.name # k)

MapKeys(m) == {m[i].name : i \in 1..Len(m)}

\* ------------------------------------------------------------ PerformanceMonitor
\* mutant: the comparator reversed (b.startTime - a.startTime)
OldestIndex_reversed(m) ==
    CHOOSE i \in 1..Len(m) :
        /\ \A j \in 1..Len(m) : m[i].startTime >= m[j].startTime
        /\ \A j \in 1..(i - 1) : m[j].startTime < m[i].startTime

\* Array.from(entries).sort(by startTime)[0]: the sort is stable, so among
\* the entries of least startTime the first in insertion order comes first.
OldestIndex(m) ==
    CHOOSE i \in 1..Len(m) :
        /\ \A j \in 1..Len(m) : m[i].startTime <= m[j].startTime
        /\ \A j \in 1..(i - 1) : m[j].startTime > m[i].startTime

clearOldMetrics(m) ==
    IF Len(m) > 0 THEN MapDelete(m, m[OldestIndex(m)].name) ELSE m

\* mutant: the capacity test off by one
NeedsEviction_offByOne(m) == Len(m) > maxMetrics

NeedsEviction(m) == Len(m) >= maxMetrics

NewMetric(name, t) == [name |-> name, startTime |-> t]

\* mutant: a measurement under way is not started again
startMeasure_keepsRunning(m, name, t) ==
    IF MapHas(m, name) /\ "endTime" \notin DOMAIN m[MapIndex(m, name)]
    THEN m
    ELSE MapSet(IF Len(m) >= maxMetrics THEN clearOldMetrics(m) ELSE m,
                name, [name |-> name, startTime |-> t])

\* mutant: no eviction when name already has a record
startMeasure_evictsForNewOnly(m, name, t) ==
    MapSet(IF Len(m) >= maxMetrics /\ ~MapHas(m, name) THEN clearOldMetrics(m) ELSE m,
           name, [name |-> name, startTime |-> t])

startMeasure(m, name, t) ==
    MapSet(IF NeedsEviction(m) THEN clearOldMetrics(m) ELSE m, name, NewMetric(name, t))

\* mutant: the subtraction the wrong way round
EndedMetric_swapped(metric, t) ==
    [name |-> metric.name, startTime |-> metric.startTime,
     endTime |-> t, duration |-> metric.startTime - t]

\* lines 43-44: the record found is changed in place
EndedMetric(metric, t) ==
    [name |-> metric.name, startTime |-> metric.startTime,
     endTime |-> t, duration |-> t - metric.startTime]

\* mutant: a miss records a measurement of no length
endMeasureMetrics_creates(m, name, t) ==
    IF MapHas(m, name)
    THEN [m EXCEPT ![MapIndex(m, name)] =
            [name |-> name, startTime |-> m[MapIndex(m, name)].startTime,
             endTime |-> t, duration |-> t - m[MapIndex(m, name)].startTime]]
    ELSE Append(m, [name |-> name, startTime |-> t, endTime |-> t, duration |-> 0])

\* mutant: a measurement that is ended leaves the store
endMeasureMetrics_removes(m, name, t) == MapDelete(m, name)

\* mutant: a record that has been ended is left as it is
endMeasureMetrics_endsOnce(m, name, t) ==
    IF MapHas(m, name) /\ "endTime" \notin DOMAIN MapGet(m, name)[1]
    THEN MapSet(m, name, EndedMetric(MapGet(m, name)[1], t))
    ELSE m

\* mutant: every record of the store is ended, not the one of name alone
endMeasureMetrics_endsAll(m, name, t) ==
    IF MapHas(m, name)
    THEN [k \in 1..Len(m) |->
            [name |-> m[k].name, startTime |-> m[k].startTime,
             endTime |-> t, duration |-> t - m[k].startTime]]
    ELSE m

endMeasureMetrics(m, name, t) ==
    IF MapHas(m, name)
    THEN [m EXCEPT ![MapIndex(m, name)] = EndedMetric(m[MapIndex(m, name)], t)]
    ELSE m

endMeasureReturn(m, name, t) ==
    IF MapHas(m, name)
    THEN <<EndedMetric(m[MapIndex(m, name)], t).duration>>
    ELSE <<>>

endMeasureLogs(m, name, t) ==
    IF MapHas(m, name)
    THEN <<[level |-> "debug", msg |-> "measured", name |-> name,
            data |-> [duration  |-> EndedMetric(m[MapIndex(m, name)], t).duration,
                      startTime |-> m[MapIndex(m, name)].startTime,
                      endTime   |-> t]]>>
    ELSE <<[level |-> "warn", msg |-> "not found", name |-> name]>>

getMetric(m, name) == MapGet(m, name)

getAllMetrics(m) == m

\* mutant: only the finished measurements are removed
clearMetrics_keepsOpen(m) == SelectSeq(m, LAMBDA e : "endTime" \notin DOMAIN e)

clearMetrics(m) == <<>>

\* ------------------------------------------------------------ arrays of record objects
\* line 60, Array.from(this.metrics.values()): a new array whose elements are
\* the record objects of the Map
arrayOfValues(m) == [k \in 1..Len(m) |-> [rec |-> m[k], live |-> TRUE]]

\* the records an array holds, as they read now
Records(a) == [k \in 1..Len(a) |-> a[k].rec]

\* lines 26-33: the Map drops the object it evicts and the object it held for
\* name; the objects themselves are not changed
arrayAfterStart(a, m, name) ==
    [k \in 1..Len(a) |->
        IF a[k].rec.name = name
           \/ (NeedsEviction(m) /\ Len(m) > 0 /\ a[k].rec.name = m[OldestIndex(m)].name)
        THEN [a[k] EXCEPT !.live = FALSE]
        ELSE a[k]]

\* lines 43-44: the object the Map holds for name is changed in place
arrayAfterEnd(a, m, name, t) ==
    [k \in 1..Len(a) |->
        IF a[k].live /\ a[k].rec.name = name /\ MapHas(m, name)
        THEN [a[k] EXCEPT !.rec = EndedMetric(a[k].rec, t)]
        ELSE a[k]]

\* line 64: the Map drops every object
arrayAfterClear(a) == [k \in 1..Len(a) |-> [a[k] EXCEPT !.live = FALSE]]

\* ------------------------------------------------------------ monitorPerformance
\* Number.toFixed(2) of a whole number of milliseconds: the decimal with two
\* fraction digits, held as its count of hundredths.
toFixed2(x) == x * 100

executionTime(endTime, startTime) == endTime - startTime

\* mutant: the threshold itself counts as slow
IsSlow_inclusive(elapsed) == elapsed >= SlowThreshold

IsSlow(elapsed) == elapsed > SlowThreshold

monitorPerformanceLogs(functionName, startTime, endTime) ==
    (IF IsSlow(executionTime(endTime, startTime))
     THEN <<[level |-> "warn", msg |-> "Performance warning", name |-> functionName,
             ms |-> toFixed2(executionTime(endTime, startTime))]>>
     ELSE <<>>)
    \o <<[level |-> "log", msg |-> "Performance", name |-> functionName,
          ms |-> toFixed2(executionTime(endTime, startTime))]>>

\* ------------------------------------------------------------ withPerformanceMonitoring
\* line 111: React.createElement(WrappedComponent, props)
createElement(component, props) == [type |-> component, props |-> props]

\* mutant: the duration is logged as the end time
renderDuration_fromZero(startTime, endTime) == endTime

\* line 114
renderDuration(startTime, endTime) == endTime - startTime

\* lines 116-120
renderLogs(componentName, startTime, endTime) ==
    <<[level |-> "debug", msg |-> "rendered", name |-> componentName,
       data |-> [duration  |-> renderDuration(startTime, endTime),
                 startTime |-> startTime,
                 endTime   |-> endTime]]>>

\* line 122
renderReturn(component, props) == createElement(component, props)

\* ------------------------------------------------------------ measure(name)
\* An invocation of the async function of lines 87-97.  It runs to the await
\* of line 90 (pc "awaiting"), the decorated method's promise settles
\* ("settled"), and the continuation runs to the return of line 92 or the
\* throw of line 95 ("returned", "thrown").  What the decorated method does
\* while it runs, and what other tasks do while the wrapper is suspended, are
\* the other actions of the model interleaved between these steps.
IdleCall ==
    [pc |-> "idle", name |-> "", args |-> <<>>, calledWith |-> <<>>,
     outcome |-> <<>>, delivered |-> <<>>, trace |-> <<>>, disturbed |-> FALSE,
     startedAt |-> <<>>, endedAt |-> <<>>]

InFlight(c) == c.pc \in {"awaiting", "settled"}

\* lines 88-90: what the wrapper does, in order, up to the await
measureEntry == <<"startMeasure", "call">>

\* mutant: the method is applied without its arguments
appliedArgs_dropped(args) == <<>>

\* line 90: originalMethod.apply(this, args)
appliedArgs(args) == args

\* mutant: the catch block rethrows without ending the measurement
measureExit_noCatchEnd(outcome) ==
    IF outcome.ok THEN <<"endMeasure", "return">> ELSE <<"throw">>

\* lines 91-92 and 94-95: what the continuation does, in order
measureExit(outcome) ==
    IF outcome.ok THEN <<"endMeasure", "return">> ELSE <<"endMeasure", "throw">>

\* mutant: the failure is wrapped in a new error
measureDelivers_wraps(outcome) ==
    IF outcome.ok THEN outcome ELSE [ok |-> FALSE, val |-> "wrapped"]

\* line 92, return result; line 95, throw error
measureDelivers(outcome) == outcome

RECURSIVE RunEvents(_, _, _, _)
\* the store after the store calls among events, made under name at time t
RunEvents(m, events, name, t) ==
    IF events = <<>> THEN m
    ELSE RunEvents(
            CASE Head(events) = "startMeasure" -> startMeasure(m, name, t)
              [] Head(events) = "endMeasure"   -> endMeasureMetrics(m, name, t)
              [] OTHER -> m,
            Tail(events), name, t)

RECURSIVE ArrayAfterEvents(_, _, _, _, _)
\* an array of record objects after the same store calls
ArrayAfterEvents(a, m, events, name, t) ==
    IF events = <<>> THEN a
    ELSE ArrayAfterEvents(
            CASE Head(events) = "startMeasure" -> arrayAfterStart(a, m, name)
              [] Head(events) = "endMeasure"   -> arrayAfterEnd(a, m, name, t)
              [] OTHER -> a,
            RunEvents(m, <<Head(events)>>, name, t),
            Tail(events), name, t)

\* ------------------------------------------------------------ the state machine
\* what a call of the monitor leaves in out: the operation, the invocation of
\* a decorated method that made it ("" for any other caller), its argument,
\* what it returned, the log lines it emitted, and (history) whether name had
\* a record when it was called (for clearMetrics: whether the store had any)
\* the record it evicted, and for endMeasure whether that record had been
\* ended before
Called(op, by, name, ret, logs, had, evicted, ended) ==
    [op |-> op, by |-> by, name |-> name, ret |-> ret, logs |-> logs,
     had |-> had, evicted |-> evicted, ended |-> ended]

WasEnded(m, name) == MapHas(m, name) /\ "endTime" \in DOMAIN MapGet(m, name)[1]

Evicted(m, name) ==
    IF NeedsEviction(m) /\ Len(m) > 0 THEN <<m[OldestIndex(m)]>> ELSE <<>>

Init ==
    /\ metrics = <<>>
    /\ now = 0
    /\ out = Called("none", "", "", <<>>, <<>>, FALSE, <<>>, FALSE)
    /\ calls = [i \in Invs |-> IdleCall]
    /\ held = <<>>

\* history: a call that may change the store, made by someone else than the
\* invocation by, marks every other invocation in flight as disturbed
Disturb(c, by) ==
    [i \in Invs |->
        IF i # by /\ InFlight(c[i]) THEN [c[i] EXCEPT !.disturbed = TRUE] ELSE c[i]]

\* the clock advances between two readings
Tick ==
    /\ now < MaxTime
    /\ now' = now + 1
    /\ UNCHANGED <<metrics, out, calls, held>>

StartMeasure(name) ==
    /\ metrics' = startMeasure(metrics, name, now)
    /\ out' = Called("startMeasure", "", name, <<>>, <<>>,
                     MapHas(metrics, name), Evicted(metrics, name), FALSE)
    /\ calls' = Disturb(calls, "")
    /\ held' = arrayAfterStart(held, metrics, name)
    /\ UNCHANGED now

EndMeasure(name) ==
    /\ metrics' = endMeasureMetrics(metrics, name, now)
    /\ out' = Called("endMeasure", "", name, endMeasureReturn(metrics, name, now),
                     endMeasureLogs(metrics, name, now), MapHas(metrics, name), <<>>,
                     WasEnded(metrics, name))
    /\ calls' = Disturb(calls, "")
    /\ held' = arrayAfterEnd(held, metrics, name, now)
    /\ UNCHANGED now

GetMetric(name) ==
    /\ out' = Called("getMetric", "", name, getMetric(metrics, name), <<>>,
                     MapHas(metrics, name), <<>>, FALSE)
    /\ UNCHANGED <<metrics, now, calls, held>>

GetAllMetrics ==
    /\ out' = Called("getAllMetrics", "", "", <<getAllMetrics(metrics)>>, <<>>, FALSE, <<>>, FALSE)
    /\ UNCHANGED <<metrics, now, calls, held>>

ClearMetrics ==
    /\ metrics' = clearMetrics(metrics)
    /\ out' = Called("clearMetrics", "", "", <<>>, <<>>, Len(metrics) > 0, <<>>, FALSE)
    /\ calls' = Disturb(calls, "")
    /\ held' = arrayAfterClear(held)
    /\ UNCHANGED now

\* the caller of the last getAllMetrics keeps the array it returned
Hold ==
    /\ out.op = "getAllMetrics"
    /\ held' = arrayOfValues(metrics)
    /\ UNCHANGED <<metrics, now, out, calls>>

\* lines 108-123: a render pass of a wrapped component; the clock may
\* advance by elapsed between the readings of lines 109 and 113
Render(w, props, elapsed) ==
    /\ now + elapsed <= MaxTime
    /\ now' = now + elapsed
    /\ out' = Called("render", "", w.componentName,
                     <<renderReturn(w.component, props)>>,
                     renderLogs(w.componentName, now, now + elapsed), FALSE, <<>>, FALSE)
    /\ UNCHANGED <<metrics, calls, held>>

\* monitorPerformance is no method of the monitor: out.ret holds (history)
\* the elapsed time it computed
MonitorPerformance(functionName, startTime) ==
    /\ out' = Called("monitorPerformance", "", functionName,
                     <<executionTime(now, startTime)>>,
                     monitorPerformanceLogs(functionName, startTime, now), FALSE, <<>>, FALSE)
    /\ UNCHANGED <<metrics, now, calls, held>>

\* lines 87-90: the wrapper is invoked and runs to its await
Invoke(i, name, args) ==
    /\ calls[i].pc = "idle"
    /\ metrics' = RunEvents(metrics, measureEntry, name, now)
    /\ out' = Called("startMeasure", i, name, <<>>, <<>>,
                     MapHas(metrics, name), Evicted(metrics, name), FALSE)
    /\ calls' = [Disturb(calls, i) EXCEPT ![i] =
                    [pc |-> "awaiting", name |-> name, args |-> args,
                     calledWith |-> IF \E k \in 1..Len(measureEntry) : measureEntry[k] = "call"
                                    THEN <<appliedArgs(args)>> ELSE <<>>,
                     outcome |-> <<>>, delivered |-> <<>>,
                     trace |-> measureEntry, disturbed |-> FALSE,
                     startedAt |-> <<now>>, endedAt |-> <<>>]]
    /\ held' = ArrayAfterEvents(held, metrics, measureEntry, name, now)
    /\ UNCHANGED now

\* the decorated method returns or its promise fulfils with result
Fulfil(i, result) ==
    /\ calls[i].pc = "awaiting"
    /\ calls' = [calls EXCEPT ![i].pc = "settled",
                              ![i].outcome = <<[ok |-> TRUE, val |-> result]>>,
                              ![i].trace = Append(@, "settled")]
    /\ UNCHANGED <<metrics, now, out, held>>

\* the decorated method throws or its promise rejects with error
Reject(i, error) ==
    /\ calls[i].pc = "awaiting"
    /\ calls' = [calls EXCEPT ![i].pc = "settled",
                              ![i].outcome = <<[ok |-> FALSE, val |-> error]>>,
                              ![i].trace = Append(@, "settled")]
    /\ UNCHANGED <<metrics, now, out, held>>

\* lines 91-92 or 94-95: the continuation of the await
Resume(i) ==
    /\ calls[i].pc = "settled"
    /\ LET c == calls[i]
           o == c.outcome[1]
       IN /\ metrics' = RunEvents(metrics, measureExit(o), c.name, now)
          /\ out' = Called("endMeasure", i, c.name, endMeasureReturn(metrics, c.name, now),
                           endMeasureLogs(metrics, c.name, now),
                           MapHas(metrics, c.name), <<>>,
                           WasEnded(metrics, c.name))
          /\ calls' = [Disturb(calls, i) EXCEPT
                          ![i].pc = IF measureDelivers(o).ok THEN "returned" ELSE "thrown",
                          ![i].delivered = <<measureDelivers(o)>>,
                          ![i].trace = @ \o measureExit(o),
                          ![i].endedAt = <<now>>]
          /\ held' = ArrayAfterEvents(held, metrics, measureExit(o), c.name, now)
    /\ UNCHANGED now

\* The monitor and monitorPerformance, called directly.
Next ==
    \/ Tick
    \/ \E name \in Names : StartMeasure(name)
    \/ \E name \in Names : EndMeasure(name)
    \/ \E name \in Names : GetMetric(name)
    \/ GetAllMetrics
    \/ ClearMetrics
    \/ \E f \in FunctionNames, s \in StartTimes : MonitorPerformance(f, s)
    \/ \E w \in Wrapped, props \in PropsGiven, elapsed \in 0..MaxTime : Render(w, props, elapsed)

Spec == Init /\ [][Next]_vars

\* One invocation of a decorated method, interleaved with the calls of other
\* tasks that may change the store: they start any name, end the names the
\* decorator is applied with, and clear.
MeasureNext ==
    \/ Tick
    \/ \E name \in Names : StartMeasure(name)
    \/ \E name \in MeasuredNames : EndMeasure(name)
    \/ ClearMetrics
    \/ \E i \in Solo, name \in MeasuredNames, args \in ArgLists : Invoke(i, name, args)
    \/ \E i \in Solo, result \in Results : Fulfil(i, result)
    \/ \E i \in Solo, error \in Errors : Reject(i, error)
    \/ \E i \in Solo : Resume(i)

MeasureSpec == Init /\ [][MeasureNext]_vars

\* Two invocations of decorated methods, under the same name or not, with no
\* other call of the monitor.
PairNext ==
    \/ Tick
    \/ \E i \in Invs, name \in MeasuredNames, args \in ArgLists : Invoke(i, name, args)
    \/ \E i \in Invs, result \in Results : Fulfil(i, result)
    \/ \E i \in Invs, error \in Errors : Reject(i, error)
    \/ \E i \in Invs : Resume(i)

PairSpec == Init /\ [][PairNext]_vars

\* The monitor called directly, under two names, by a caller that keeps the
\* arrays getAllMetrics returns.
HolderNext ==
    \/ Tick
    \/ \E name \in MeasuredNames : StartMeasure(name)
    \/ \E name \in MeasuredNames : EndMeasure(name)
    \/ \E name \in MeasuredNames : GetMetric(name)
    \/ GetAllMetrics
    \/ ClearMetrics
    \/ Hold

HolderSpec == Init /\ [][HolderNext]_vars

\* ------------------------------------------------------------ properties
HasEnd(r) == "endTime" \in DOMAIN r
HasDuration(r) == "duration" \in DOMAIN r
Positions(trace, e) == {k \in 1..Len(trace) : trace[k] = e}
Started(name, t) == [name |-> name, startTime |-> t]
\* no record can be read from the store m
ReadsEmpty(m) ==
    /\ getAllMetrics(m) = <<>>
    /\ \A n \in Names : getMetric(m, n) = <<>>

\* C1: whatever sequence of startMeasure, endMeasure, getMetric, getAllMetrics
\* and clearMetrics calls has been made, the store holds at most maxMetrics
\* records (and no name twice).
C1_AtMostCapacity ==
    /\ Len(metrics) <= maxMetrics
    /\ Cardinality(MapKeys(metrics)) = Len(metrics)

\* a startMeasure has just evicted a record and left the store full
C1_Witness ==
    /\ out.op = "startMeasure"
    /\ out.evicted # <<>>
    /\ Len(metrics) = maxMetrics

\* C2: startMeasure(name) on a full store, for a name the store does not hold,
\* removes exactly one record, one whose startTime is least among the records
\* held before the call, keeps every other record as it was, and inserts the
\* new record for name, so that the store is full again.
C2_EvictsOneOldest ==
    [][\A name \in Names :
        (StartMeasure(name) /\ Len(metrics) = maxMetrics /\ ~MapHas(metrics, name)) =>
            \E k \in 1..Len(metrics) :
                /\ MapKeys(metrics) \ MapKeys(metrics') = {metrics[k].name}
                /\ \A j \in 1..Len(metrics) : metrics[k].startTime <= metrics[j].startTime
                /\ \A j \in 1..Len(metrics) :
                        j # k => MapGet(metrics', metrics[j].name) = <<metrics[j]>>
                /\ MapGet(metrics', name) = <<Started(name, now)>>
                /\ Len(metrics') = maxMetrics
                /\ Cardinality(MapKeys(metrics')) = maxMetrics
      ]_vars

\* a new name was started on a full store whose records differ in startTime:
\* the survivor is the younger one
C2_Witness ==
    /\ out.op = "startMeasure"
    /\ ~out.had
    /\ out.evicted # <<>>
    /\ Len(metrics) = maxMetrics
    /\ \E j \in 1..Len(metrics) : metrics[j].name # out.name /\ metrics[j].startTime > 0

\* C3: every record of the store has a duration if and only if it has an
\* endTime, and then duration = endTime - startTime and duration >= 0.
C3_DurationIffEnded ==
    \A k \in 1..Len(metrics) :
        LET r == metrics[k] IN
            /\ HasDuration(r) <=> HasEnd(r)
            /\ HasEnd(r) => /\ r.duration = r.endTime - r.startTime
                            /\ r.duration >= 0

\* a record that already existed was ended later than it was started, beside
\* a record that was started again later than the first
C3_Witness ==
    /\ out.op = "endMeasure"
    /\ out.had
    /\ \E k \in 1..Len(metrics) :
            /\ metrics[k].name = out.name
            /\ HasEnd(metrics[k])
            /\ metrics[k].duration > 0
    /\ \E k \in 1..Len(metrics) : metrics[k].startTime > 0

\* C4: endMeasure(name) for a name that has no record returns undefined, emits
\* one warning and nothing else, and leaves the store as it was.
C4_MissLeavesStore ==
    [][\A name \in Names :
        (EndMeasure(name) /\ ~MapHas(metrics, name)) =>
            /\ metrics' = metrics
            /\ out'.ret = <<>>
            /\ Len(out'.logs) = 1
            /\ out'.logs[1].level = "warn"
            /\ out'.logs[1].name = name
      ]_vars

\* endMeasure missed on a store that holds records of other names
C4_Witness ==
    /\ out.op = "endMeasure"
    /\ ~out.had
    /\ out.ret = <<>>
    /\ Len(metrics) > 0

\* C5: startMeasure(name), in whatever state it is called, leaves
\* getMetric(name) as a record whose startTime is the time of that call and
\* which has neither endTime nor duration.
C5_StartOverwrites ==
    [][\A name \in Names :
        StartMeasure(name) =>
            /\ getMetric(metrics', name) = <<Started(name, now)>>
            /\ out'.ret = <<>>
      ]_vars

\* a name started at time 0 and not ended has been started again at a later
\* time, on a full store
C5_Witness ==
    /\ out.op = "startMeasure"
    /\ out.had
    /\ out.evicted # <<>>
    /\ getMetric(metrics, out.name) = <<Started(out.name, 1)>>

\* C6: clearMetrics() leaves a store from which getAllMetrics() reads the
\* empty sequence and getMetric(n) reads undefined for every n, and that stays
\* so until the next startMeasure.
C6_ClearEmpties ==
    [][/\ ClearMetrics => ReadsEmpty(metrics')
       /\ (ReadsEmpty(metrics) /\ ~(\E name \in Names : StartMeasure(name)))
              => ReadsEmpty(metrics')
      ]_vars

\* clearMetrics() was called on a store that held records
C6_Witness ==
    /\ out.op = "clearMetrics"
    /\ out.had
    /\ ReadsEmpty(metrics)

\* C7: an invocation of a decorated method calls startMeasure once and before
\* the method; it does not call endMeasure before the method has settled; and
\* when it has delivered its result or failure it has called endMeasure exactly
\* once, after the method settled and before delivering.
C7_EndOncePerInvocation ==
    \A i \in Invs :
        LET c == calls[i]
            at(e) == CHOOSE k \in Positions(c.trace, e) : TRUE
            deliver == IF c.pc = "returned" THEN "return" ELSE "throw"
        IN  /\ c.pc # "idle" =>
                /\ Cardinality(Positions(c.trace, "startMeasure")) = 1
                /\ Cardinality(Positions(c.trace, "call")) = 1
                /\ at("startMeasure") < at("call")
            /\ c.pc \in {"awaiting", "settled"} =>
                Positions(c.trace, "endMeasure") = {}
            /\ c.pc \in {"returned", "thrown"} =>
                /\ Cardinality(Positions(c.trace, "endMeasure")) = 1
                /\ Cardinality(Positions(c.trace, "settled")) = 1
                /\ Cardinality(Positions(c.trace, "return") \cup Positions(c.trace, "throw")) = 1
                /\ Positions(c.trace, deliver) # {}
                /\ at("call") < at("settled")
                /\ at("settled") < at("endMeasure")
                /\ at("endMeasure") < at(deliver)

\* an invocation whose method failed has delivered the failure
C7_Witness ==
    \E i \in Invs :
        /\ calls[i].pc = "thrown"
        /\ Positions(calls[i].trace, "endMeasure") # {}

\* C8: when the decorated method fails with E the wrapper fails with E, and if
\* no other call touched the store during the invocation, the record of name
\* has its endTime set when the wrapper has failed.
C8_FailurePassesThrough ==
    \A i \in Invs :
        LET c == calls[i] IN
            (c.pc \in {"returned", "thrown"} /\ ~c.outcome[1].ok) =>
                /\ c.pc = "thrown"
                /\ c.delivered = c.outcome
                /\ (~c.disturbed /\ out.by = i /\ out.op = "endMeasure") =>
                        /\ getMetric(metrics, c.name) # <<>>
                        /\ HasEnd(getMetric(metrics, c.name)[1])

\* an undisturbed invocation has failed with "boom", a tick after it started
C8_Witness ==
    \E i \in Invs :
        /\ calls[i].pc = "thrown"
        /\ calls[i].delivered = <<[ok |-> FALSE, val |-> "boom"]>>
        /\ ~calls[i].disturbed
        /\ out.by = i
        /\ getMetric(metrics, calls[i].name) = <<[name |-> calls[i].name, startTime |-> 0,
                                                  endTime |-> 1, duration |-> 1]>>

\* C9: when the decorated method succeeds with r the wrapper yields r, the
\* method was applied to the arguments the wrapper was invoked with, and if no
\* other call touched the store during the invocation, the record of name has
\* a duration >= 0 when the wrapper has returned.
C9_SuccessPassesThrough ==
    \A i \in Invs :
        LET c == calls[i] IN
            /\ c.pc # "idle" => c.calledWith = <<c.args>>
            /\ (c.pc \in {"returned", "thrown"} /\ c.outcome[1].ok) =>
                /\ c.pc = "returned"
                /\ c.delivered = c.outcome
                /\ (~c.disturbed /\ out.by = i /\ out.op = "endMeasure") =>
                        /\ getMetric(metrics, c.name) # <<>>
                        /\ HasDuration(getMetric(metrics, c.name)[1])
                        /\ getMetric(metrics, c.name)[1].duration >= 0

\* an undisturbed invocation with argument 2 has returned "42", a tick after
\* it started
C9_Witness ==
    \E i \in Invs :
        /\ calls[i].pc = "returned"
        /\ calls[i].args = <<2>>
        /\ calls[i].delivered = <<[ok |-> TRUE, val |-> "42"]>>
        /\ ~calls[i].disturbed
        /\ out.by = i
        /\ getMetric(metrics, calls[i].name) # <<>>
        /\ getMetric(metrics, calls[i].name)[1].duration = 1

\* C10: monitorPerformance(functionName, startTime) emits the informational
\* line once, emits the warning if and only if now - startTime > 100, emits
\* nothing else, and leaves the store as it was.
C10_WarnsOnlyAbove100 ==
    [][\A f \in FunctionNames, s \in StartTimes :
        MonitorPerformance(f, s) =>
            LET lines == out'.logs
                warns == {k \in 1..Len(lines) : lines[k].level = "warn"}
                infos == {k \in 1..Len(lines) : lines[k].level = "log"}
            IN  /\ Cardinality(infos) = 1
                /\ (warns # {}) <=> (now - s > 100)
                /\ Cardinality(warns) <= 1
                /\ Cardinality(warns) + Cardinality(infos) = Len(lines)
                /\ \A k \in 1..Len(lines) : lines[k].name = f
                /\ metrics' = metrics
      ]_vars

\* monitorPerformance found exactly 100 elapsed, on a store that holds a
\* record, and emitted the informational line alone
C10_Witness ==
    /\ out.op = "monitorPerformance"
    /\ out.ret = <<100>>
    /\ Len(out.logs) = 1
    /\ Len(metrics) > 0

\* C11: a render pass of a component wrapped by withPerformanceMonitoring
\* leaves the store as it was, emits one debug line and nothing else, whose
\* startTime and endTime are the two clock readings and whose duration is
\* endTime - startTime, and returns the element created for the wrapped
\* component with the props given.
C11_RenderLogsOnly ==
    [][\A w \in Wrapped, props \in PropsGiven, elapsed \in 0..MaxTime :
        Render(w, props, elapsed) =>
            /\ metrics' = metrics
            /\ Len(out'.logs) = 1
            /\ out'.logs[1].level = "debug"
            /\ out'.logs[1].name = w.componentName
            /\ out'.logs[1].data.startTime = now
            /\ out'.logs[1].data.endTime = now + elapsed
            /\ out'.logs[1].data.duration = elapsed
            /\ out'.ret = <<[type |-> w.component, props |-> props]>>
      ]_vars

\* a render pass during which the clock advanced, over a store that holds
\* records
C11_Witness ==
    /\ out.op = "render"
    /\ out.logs[1].data.duration = 1
    /\ Len(metrics) > 0

\* C12: startMeasure(name) on a full store evicts a record of least startTime
\* also when name has a record: the store then holds maxMetrics - 1 records
\* if the evicted record was another name's and maxMetrics if it was name's
\* own; below capacity it removes no record of another name.
C12_EvictsAlsoForHeldName ==
    [][\A name \in Names :
        StartMeasure(name) =>
            /\ (Len(metrics) >= maxMetrics /\ MapHas(metrics, name)) =>
                \E k \in 1..Len(metrics) :
                    /\ \A j \in 1..Len(metrics) : metrics[k].startTime <= metrics[j].startTime
                    /\ metrics[k].name # name =>
                            /\ ~MapHas(metrics', metrics[k].name)
                            /\ Len(metrics') = maxMetrics - 1
                    /\ metrics[k].name = name => Len(metrics') = maxMetrics
                    /\ \A j \in 1..Len(metrics) :
                            (j # k /\ metrics[j].name # name) =>
                                MapGet(metrics', metrics[j].name) = <<metrics[j]>>
            /\ Len(metrics) < maxMetrics =>
                \A j \in 1..Len(metrics) :
                    metrics[j].name # name =>
                        MapGet(metrics', metrics[j].name) = <<metrics[j]>>
      ]_vars

\* a name that had a record was started on a full store and the record of
\* another name was evicted
C12_Witness ==
    /\ out.op = "startMeasure"
    /\ out.had
    /\ out.evicted # <<>>
    /\ out.evicted[1].name # out.name
    /\ Len(metrics) = maxMetrics - 1

\* C13 as stated, on the stores it speaks of: when startMeasure evicts from a
\* store that holds a record still open and an older record already ended,
\* it evicts an open record and an older, ended record survives.
C13_OlderEndedSurvives ==
    [][\A name \in Names :
        (/\ StartMeasure(name)
         /\ Len(metrics) >= maxMetrics
         /\ \E x, y \in 1..Len(metrics) :
                /\ HasEnd(metrics[x])
                /\ ~HasEnd(metrics[y])
                /\ metrics[x].startTime < metrics[y].startTime)
        => /\ out'.evicted # <<>>
           /\ ~HasEnd(out'.evicted[1])
           /\ \E k \in 1..Len(metrics') :
                /\ HasEnd(metrics'[k])
                /\ metrics'[k].startTime < out'.evicted[1].startTime
      ]_vars

\* C13, amended: no record that survives an eviction is older than the record
\* evicted (eviction is by startTime alone, whether the records are ended or
\* not).
C13_NoOlderSurvives ==
    (out.op = "startMeasure" /\ out.evicted # <<>>) =>
        \A k \in 1..Len(metrics) : metrics[k].startTime >= out.evicted[1].startTime

\* a record still open was evicted while a younger record, already ended,
\* survives
C13_Witness ==
    /\ out.op = "startMeasure"
    /\ out.evicted # <<>>
    /\ ~HasEnd(out.evicted[1])
    /\ \E k \in 1..Len(metrics) :
            /\ HasEnd(metrics[k])
            /\ metrics[k].startTime > out.evicted[1].startTime

\* C14: endMeasure(name) for a name that has a record returns the duration it
\* stores, keeps the record under name with its startTime and with endTime
\* and duration set, keeps the names held and their order, and changes no
\* other record.
C14_EndKeepsRecord ==
    [][\A name \in Names :
        (EndMeasure(name) /\ MapHas(metrics, name)) =>
            /\ MapHas(metrics', name)
            /\ LET r == MapGet(metrics, name)[1]
                   q == MapGet(metrics', name)[1]
               IN  /\ q.name = name
                   /\ q.startTime = r.startTime
                   /\ HasEnd(q) /\ q.endTime = now
                   /\ HasDuration(q) /\ out'.ret = <<q.duration>>
            /\ Len(metrics') = Len(metrics)
            /\ \A k \in 1..Len(metrics) :
                    /\ metrics'[k].name = metrics[k].name
                    /\ metrics[k].name # name => metrics'[k] = metrics[k]
      ]_vars

\* a record was ended a tick after it was started, in a full store
C14_Witness ==
    /\ out.op = "endMeasure"
    /\ out.had
    /\ out.ret = <<1>>
    /\ Len(metrics) = maxMetrics
    /\ MapHas(metrics, out.name)

\* the record of name is in the store m and has no endTime
Open(m, name) == MapHas(m, name) /\ ~HasEnd(MapGet(m, name)[1])

\* C15 as stated: while an invocation of a method decorated with
\* measure(name) stays unresolved, the record of name, once open, is open in
\* the next state unless it has left the store, whatever the step.
C15_StaysStarted ==
    [][\A i \in Invs :
        (/\ calls[i].pc = "awaiting"
         /\ calls'[i].pc = "awaiting"
         /\ Open(metrics, calls[i].name)
         /\ MapHas(metrics', calls[i].name))
        => Open(metrics', calls[i].name)
      ]_vars

\* C15, amended: the same, for every step that is not an endMeasure(name)
\* made by another caller or another invocation.
C15_StaysStartedUnlessEnded ==
    [][\A i \in Invs :
        (/\ calls[i].pc = "awaiting"
         /\ calls'[i].pc = "awaiting"
         /\ Open(metrics, calls[i].name)
         /\ MapHas(metrics', calls[i].name)
         /\ ~EndMeasure(calls[i].name)
         /\ ~(\E j \in Invs \ {i} : Resume(j) /\ calls[j].name = calls[i].name))
        => Open(metrics', calls[i].name)
      ]_vars

\* an invocation is still unresolved a tick after it started, another caller
\* has just ended another name, and the record is open
C15_Witness ==
    \E i \in Invs :
        /\ calls[i].pc = "awaiting"
        /\ calls[i].disturbed
        /\ calls[i].startedAt = <<0>>
        /\ now > 0
        /\ out.op = "endMeasure" /\ out.by = "" /\ out.had /\ out.name # calls[i].name
        /\ Open(metrics, calls[i].name)

Max(x, y) == IF x >= y THEN x ELSE y
Delivered(c) == c.pc \in {"returned", "thrown"}
Ended(name, s, e) == [name |-> name, startTime |-> s, endTime |-> e, duration |-> e - s]

\* C16: of two invocations under the same name that overlap, with no other
\* call of the monitor, the later startMeasure wins: while neither has ended,
\* the one record of the name has the later start time, and when both have
\* delivered it has the later start time and the endTime of the invocation
\* that ended last.
C16_LastStartWins ==
    \A i, j \in Invs :
        LET c == calls[i]
            d == calls[j]
        IN  (/\ i # j
             /\ c.pc # "idle" /\ d.pc # "idle"
             /\ c.name = d.name
             /\ c.disturbed \/ d.disturbed) =>
                /\ Cardinality({k \in 1..Len(metrics) : metrics[k].name = c.name}) = 1
                /\ (InFlight(c) /\ InFlight(d)) =>
                        getMetric(metrics, c.name) =
                            <<Started(c.name, Max(c.startedAt[1], d.startedAt[1]))>>
                /\ (Delivered(c) /\ Delivered(d)) =>
                        getMetric(metrics, c.name) =
                            <<Ended(c.name, Max(c.startedAt[1], d.startedAt[1]),
                                    Max(c.endedAt[1], d.endedAt[1]))>>

\* the second invocation started a tick after the first, while the first was
\* suspended, and both have delivered: the record shows no time elapsed
C16_Witness ==
    \E i, j \in Invs :
        /\ i # j
        /\ calls[i].name = calls[j].name
        /\ Delivered(calls[i]) /\ Delivered(calls[j])
        /\ calls[i].disturbed
        /\ calls[i].startedAt = <<0>> /\ calls[j].startedAt = <<1>>
        /\ getMetric(metrics, calls[i].name) = <<Ended(calls[i].name, 1, 1)>>

\* C17: of invocations under distinct names, with no other call of the
\* monitor (the store is not cleared and nothing is evicted), each has its
\* own record: started at its own start time while it is in flight, and with
\* its own start and completion times once it has delivered.
C17_DistinctNamesIndependent ==
    \A i \in Invs :
        LET c == calls[i] IN
            (c.pc # "idle" /\ \A j \in Invs \ {i} : calls[j].name # c.name) =>
                /\ InFlight(c) =>
                        getMetric(metrics, c.name) = <<Started(c.name, c.startedAt[1])>>
                /\ Delivered(c) =>
                        getMetric(metrics, c.name) =
                            <<Ended(c.name, c.startedAt[1], c.endedAt[1])>>

\* two invocations under distinct names overlapped and both have delivered,
\* one of them a tick after it started
C17_Witness ==
    \E i, j \in Invs :
        /\ i # j
        /\ calls[i].name # calls[j].name
        /\ Delivered(calls[i]) /\ Delivered(calls[j])
        /\ calls[i].disturbed /\ calls[j].disturbed
        /\ calls[i].startedAt = <<0>> /\ calls[i].endedAt = <<1>>
        /\ calls[j].startedAt = <<1>>

\* C18: getMetric and getAllMetrics leave the store unchanged, getAllMetrics
\* returns exactly one record per name held, the record stored for it, and a
\* later startMeasure, endMeasure or clearMetrics does not change what an
\* array already returned holds.
C18_ReadsAreSnapshots ==
    [][/\ (out'.op = "getMetric" /\ GetMetric(out'.name)) => metrics' = metrics
       /\ (out'.op = "getAllMetrics" /\ GetAllMetrics) =>
                LET r == out'.ret[1] IN
                    /\ metrics' = metrics
                    /\ Len(r) = Cardinality(MapKeys(metrics))
                    /\ \A n \in MapKeys(metrics) :
                            /\ Cardinality({k \in 1..Len(r) : r[k].name = n}) = 1
                            /\ \E k \in 1..Len(r) : <<r[k]>> = getMetric(metrics, n)
       /\ (\/ out'.op = "startMeasure" /\ StartMeasure(out'.name)
           \/ out'.op = "endMeasure" /\ EndMeasure(out'.name)
           \/ out'.op = "clearMetrics" /\ ClearMetrics) =>
                Records(held') = Records(held)]_vars

\* C19 as stated: a record that has been ended keeps its endTime and duration
\* for as long as it stays ended, also across a further endMeasure(name).
C19_EndedStaysFixed ==
    [][\A n \in Names :
            (WasEnded(metrics, n) /\ WasEnded(metrics', n)) =>
                getMetric(metrics', n) = getMetric(metrics, n)]_vars

\* C19: a record's life is absent -> started -> ended: a name that gains a
\* record gains a started one, only endMeasure(name) ends a record, and an
\* ended record changes only when the name is started again (a started
\* record replaces it), when a startMeasure evicts it or clearMetrics drops
\* it, or when endMeasure(name) is called again, which sets endTime to the
\* time of that call and duration to match.
C19_TwoPhase ==
    [][/\ (out'.op = "endMeasure" /\ EndMeasure(out'.name) /\ out'.ended) =>
            getMetric(metrics', out'.name) =
                <<Ended(out'.name, getMetric(metrics, out'.name)[1].startTime, now)>>
       /\ \A n \in Names :
            LET before == getMetric(metrics, n)
                after  == getMetric(metrics', n)
            IN  /\ (before = <<>> /\ after # <<>>) => after = <<Started(n, now)>>
                /\ (~WasEnded(metrics, n) /\ WasEnded(metrics', n)) =>
                        /\ out'.op = "endMeasure" /\ out'.name = n
                        /\ before # <<>>
                        /\ after = <<Ended(n, before[1].startTime, now)>>
                /\ (WasEnded(metrics, n) /\ after # before) =>
                        \/ /\ out'.op = "endMeasure" /\ out'.name = n /\ out'.ended
                           /\ after = <<Ended(n, before[1].startTime, now)>>
                        \/ /\ out'.op = "startMeasure" /\ out'.name = n
                           /\ after = <<Started(n, now)>>
                        \/ /\ out'.op = "startMeasure" /\ out'.evicted = before
                           /\ after = <<>>
                        \/ /\ out'.op = "clearMetrics"
                           /\ after = <<>>]_vars

\* an ended record has been ended again a tick later: it now shows the later
\* endTime
C19_Witness ==
    /\ out.op = "endMeasure" /\ out.had /\ out.ended
    /\ out.ret = <<1>>
    /\ getMetric(metrics, out.name) = <<Ended(out.name, 0, 1)>>

\* C20: what a measure(name)-wrapped invocation delivers is what the callable
\* produced, whatever happened to the store; when the record of name was
\* evicted or cleared while the callable was awaited, the wrapper's
\* endMeasure reports a miss (one warning, nothing returned, no record of
\* name created) and the result or failure is still delivered unchanged.
C20_OutcomeIgnoresStore ==
    \A i \in Invs :
        LET c == calls[i] IN
            Delivered(c) =>
                /\ c.delivered = c.outcome
                /\ c.pc = IF c.outcome[1].ok THEN "returned" ELSE "thrown"
                /\ (out.by = i /\ out.op = "endMeasure" /\ ~out.had) =>
                        /\ c.disturbed
                        /\ out.name = c.name
                        /\ out.ret = <<>>
                        /\ out.logs = <<[level |-> "warn", msg |-> "not found",
                                         name |-> c.name]>>
                        /\ ~MapHas(metrics, c.name)

\* the record was gone when the callable failed with "boom": the wrapper's
\* endMeasure missed and "boom" was re-raised
C20_Witness ==
    \E i \in Invs :
        /\ calls[i].pc = "thrown"
        /\ calls[i].delivered = <<[ok |-> FALSE, val |-> "boom"]>>
        /\ calls[i].disturbed
        /\ out.by = i /\ out.op = "endMeasure" /\ ~out.had
        /\ out.ret = <<>>

====
